---- MODULE Spec2Model ----
(***************************************************************************)
(* Scheduling and lifecycle core of the vehicle-rental platform:           *)
(* the storage layer (DatabaseStorage) and the route handlers that drive   *)
(* BookingRequests and Rentals.  Dates are timestamps counted in ticks;    *)
(* TicksPerDay ticks make one day.                                         *)
(***************************************************************************)
EXTENDS Integers, FiniteSets, Sequences, TLC

\* ---------------------------------------------------------------- bounds
MaxTime == 2
MaxRentals == 2
MaxRequests == 2
MaxStored == 1
MaxReviews == 2

\* The calendar is scaled down: a day, a second and a month are each a few
\* ticks.  The handlers only add, subtract and compare instants, and a tick
\* is shorter than a second, as a millisecond is.
TicksPerDay == 2
TicksPerSecond == 2
TicksPerMonth == 2

Times == 0..MaxTime
Sessions == {1, 2}

\* ------------------------------------------------------------ fixed data
\* the vehicles table (id -> name); fleet management is not modelled
VehicleTable == {[id |-> 1, name |-> "A"], [id |-> 2, name |-> "B"]}
VehicleNames == {v.name : v \in VehicleTable}
CustomerIds == {1}
NoRow == [row |-> "none"]

\* inputs the handlers are driven with
RentalIntervalInputs == {<<0, 1>>, <<1, 2>>, <<2, 2>>, <<2, 0>>}
RequestIntervalInputs == {<<0, 1>>, <<1, 2>>, <<1, 1>>}
RequestVehicleInputs == {[vehicleId |-> 1, vehicleName |-> "A"],
                         [vehicleId |-> 3, vehicleName |-> "C"]}
DecideStatusInputs == {"confirmed", "rejected", "pending", "cancelled"}
StaffIdInputs == {0, 7}
ReasonInputs == {"", "no car"}
CheckIntervalInputs == {<<0, 1>>, <<1, 2>>, <<2, 2>>}
AllIntervals == Times \X Times
RentalStatuses == {"pending", "completed", "cancelled"}
RentalIdInputs == 1..(MaxRentals + 1)
RequestIdInputs == 1..(MaxRequests + 1)
CustomerIdInputs == CustomerIds \cup {2}
CustomerStatusInputs == {"active", "blacklisted", "vip"}
\* compressImageDetailed: qualities are in hundredths (0.85 is 85), sizes in
\* bytes, dimensions in pixels; maxSizeInMB is a whole number, the default
\* 0.8 being stood for by 1
defaultOptions == [maxWidth |-> 1200, maxHeight |-> 1200, quality |-> 85,
                   maxSizeInMB |-> 1, minQuality |-> 30,
                   minWidth |-> 400, minHeight |-> 400]
OptionInputs == {defaultOptions,
                 [defaultOptions EXCEPT !.maxSizeInMB = 2],
                 [defaultOptions EXCEPT !.quality = 30]}
FileSizeInputs == {1024 * 1024, 3 * 1024 * 1024}
FileExtInputs == {"jpg", "heic"}
ImageSizeInputs == {<<300, 300>>, <<500, 500>>, <<2400, 1200>>}
\* sizes canvas.toBlob can produce; 0 stands for a null blob
BlobSizeInputs == {0, 1024 * 1024, 2 * 1024 * 1024 + 1}
RatingInputs == {1, 5}
ReviewPoints == 25
CheckVehicleNameInputs == VehicleNames \cup {"", "C"}
MonthInputs == 0..2
YearInputs == {0, 1}
SubmitIntervalInputs == {<<0, 1>>, <<0, 2>>, <<1, 1>>, <<1, 0>>, <<2, 0>>}

VARIABLES rentals, bookingRequests, customers, nextRentalId, nextRequestId,
          conv, chk, resp, reviews, rev, img

vars == <<rentals, bookingRequests, customers, nextRentalId, nextRequestId,
          conv, chk, resp, reviews, rev, img>>

\* ------------------------------------------------------- storage: rentals
\* A rental row carries the columns the scheduling core reads: id,
\* customerId, vehicle, startDate, endDate, status.  Pricing, mileage and
\* document columns (agreementPdfUrl among them) are left out.

\* default of the rentals.status column
RentalStatusDefault == "pending"

\* the WHERE clause without its third case ("completely overlaps")
ConflictConditionNoContain(s, e, startDate, endDate) ==
    \/ (s <= startDate /\ e >= startDate)
    \/ (s <= endDate /\ e >= endDate)

\* the WHERE clause without its second case ("ends during existing rental")
ConflictConditionNoEnd(s, e, startDate, endDate) ==
    \/ (s <= startDate /\ e >= startDate)
    \/ (s >= startDate /\ e <= endDate)

\* the WHERE clause with gt/lt on the rental's end in place of gte/lte
ConflictConditionStrict(s, e, startDate, endDate) ==
    \/ (s <= startDate /\ e > startDate)
    \/ (s <= endDate /\ e > endDate)
    \/ (s >= startDate /\ e < endDate)

\* the three-case WHERE clause shared by checkVehicleAvailability and
\* getConflictingRentals: row [s,e] against the requested [startDate,endDate]
ConflictCondition(s, e, startDate, endDate) ==
    \/ (s <= startDate /\ e >= startDate)
    \/ (s <= endDate /\ e >= endDate)
    \/ (s >= startDate /\ e <= endDate)

getConflictingRentals(table, vehicle, startDate, endDate, excludeRentalId) ==
    {r \in table :
        /\ r.vehicle = vehicle
        /\ r.status # "cancelled"
        /\ ConflictCondition(r.startDate, r.endDate, startDate, endDate)
        /\ (excludeRentalId # 0 => r.id # excludeRentalId)}

checkVehicleAvailability(table, vehicle, startDate, endDate, excludeRentalId) ==
    LET conflicts ==
          {r \in table :
              /\ r.vehicle = vehicle
              /\ r.status # "cancelled"
              /\ ConflictCondition(r.startDate, r.endDate, startDate, endDate)
              /\ (excludeRentalId # 0 => r.id # excludeRentalId)}
    IN  Cardinality(conflicts) = 0

getRentalById(table, id) ==
    IF \E r \in table : r.id = id
    THEN CHOOSE r \in table : r.id = id
    ELSE NoRow

createRental(table, id, insertRental) ==
    table \cup {[id |-> id,
                 customerId |-> insertRental.customerId,
                 vehicle |-> insertRental.vehicle,
                 startDate |-> insertRental.startDate,
                 endDate |-> insertRental.endDate,
                 status |-> insertRental.status]}

updateRentalStatus(table, id, status) ==
    {IF r.id = id THEN [r EXCEPT !.status = status] ELSE r : r \in table}

updateRentalPdf(table, id) ==
    {IF r.id = id THEN [r EXCEPT !.status = "completed"] ELSE r : r \in table}

updateRental(table, id, updates) ==
    {IF r.id = id THEN [r EXCEPT !.status = updates.status] ELSE r : r \in table}

deleteRental(table, id) == {r \in table : r.id # id}

\* new Date(year, month - 1, 1); the model's calendar starts with year 1
StartOfMonth(month, year) ==
    ((year - 1) * 12 + (month - 1)) * TicksPerMonth

\* new Date(year, month, 0, 23, 59, 59): one second before the next month
EndOfMonth(month, year) ==
    ((year - 1) * 12 + month) * TicksPerMonth - TicksPerSecond

\* the rows getVehicleSchedule selects; month 0 and year 0 stand for the
\* falsy values (undefined, NaN, 0)
getVehicleSchedule(table, vehicle, month, year) ==
    {r \in table :
        /\ r.vehicle = vehicle
        /\ r.status # "cancelled"
        /\ (month # 0 /\ year # 0) =>
              LET startOfMonth == StartOfMonth(month, year)
                  endOfMonth == EndOfMonth(month, year)
              IN  \/ (r.startDate >= startOfMonth /\ r.startDate <= endOfMonth)
                  \/ (r.endDate >= startOfMonth /\ r.endDate <= endOfMonth)
                  \/ (r.startDate <= startOfMonth /\ r.endDate >= endOfMonth)}

\* orderBy(rentals.startDate): the listings of rows in ascending startDate
\* (rows with equal startDate come in any order)
OrderByStartDate(rows) ==
    {f \in [1..Cardinality(rows) -> rows] :
        /\ \A i, j \in 1..Cardinality(rows) : i # j => f[i] # f[j]
        /\ \A i, j \in 1..Cardinality(rows) :
              i < j => f[i].startDate <= f[j].startDate}

\* ---------------------------------------------- storage: booking requests
getBookingRequestById(table, id) ==
    IF \E b \in table : b.id = id
    THEN CHOOSE b \in table : b.id = id
    ELSE NoRow

createBookingRequest(table, id, request) ==
    table \cup {[id |-> id,
                 customerId |-> request.customerId,
                 vehicleId |-> request.vehicleId,
                 vehicleName |-> request.vehicleName,
                 startDate |-> request.startDate,
                 endDate |-> request.endDate,
                 totalDays |-> request.totalDays,
                 status |-> request.status,
                 confirmedByStaffId |-> 0,
                 confirmedAt |-> FALSE,
                 rejectedReason |-> ""]}

\* staffId 0 and reason "" stand for the falsy values (undefined, null, "")
updateBookingRequestStatus(table, id, status, staffId, reason) ==
    {IF b.id = id
     THEN [b EXCEPT
             !.status = status,
             !.confirmedByStaffId =
                 IF status = "confirmed" /\ staffId # 0 THEN staffId ELSE @,
             !.confirmedAt =
                 IF status = "confirmed" /\ staffId # 0 THEN TRUE ELSE @,
             !.rejectedReason =
                 IF status = "rejected" /\ reason # "" THEN reason ELSE @]
     ELSE b : b \in table}

deleteBookingRequest(table, id) == {b \in table : b.id # id}

\* ------------------------------------------- storage: customers, vehicles
getCustomerById(id) ==
    IF id \in DOMAIN customers /\ customers[id] # NoRow
    THEN customers[id] ELSE NoRow

updateCustomerStatus(table, id, status) ==
    [c \in DOMAIN table |->
        IF c = id /\ table[c] # NoRow
        THEN [table[c] EXCEPT !.status = status]
        ELSE table[c]]

updateCustomerTermsAcceptance(table, customerId) ==
    [c \in DOMAIN table |->
        IF c = customerId /\ table[c] # NoRow
        THEN [table[c] EXCEPT !.status = "active"]
        ELSE table[c]]

updateCustomerPoints(table, customerId, points) ==
    [c \in DOMAIN table |->
        IF c = customerId /\ table[c] # NoRow
        THEN [table[c] EXCEPT !.totalPoints = points]
        ELSE table[c]]

\* reviews are never deleted, so the serial id is the row count plus one
createCustomerReview(table, review) ==
    table \cup {[id |-> Cardinality(table) + 1,
                 customerId |-> review.customerId,
                 rating |-> review.rating]}

getVehicleById(id) ==
    IF \E v \in VehicleTable : v.id = id
    THEN CHOOSE v \in VehicleTable : v.id = id
    ELSE NoRow

\* ------------------------------------------------------------------ init
IdleConv == [pc |-> "idle", requestId |-> 0, request |-> NoRow]
IdleChk == [pc |-> "idle", vehicle |-> "", startDate |-> 0, endDate |-> 0,
            excludeRentalId |-> 0, isAvailable |-> FALSE]
NoResp == [op |-> "none", code |-> 0]
IdleRev == [pc |-> "idle", customerId |-> 0, reviewId |-> 0, newPoints |-> 0]
IdleImg == [pc |-> "idle", fileSize |-> 0, targetBytes |-> 0,
            quality |-> 0, minQuality |-> 0, startQuality |-> 0,
            width |-> 0, height |-> 0, iterations |-> 0, finalSize |-> 0]

Init ==
    /\ rentals = {}
    /\ bookingRequests = {}
    /\ customers = [c \in CustomerIds |->
                       [id |-> c, status |-> "active", totalPoints |-> 0]]
    /\ nextRentalId = 1
    /\ nextRequestId = 1
    /\ conv = [s \in Sessions |-> IdleConv]
    /\ chk = IdleChk
    /\ resp = NoResp
    /\ reviews = {}
    /\ rev = [s \in Sessions |-> IdleRev]
    /\ img = IdleImg

\* ------------------------------------------------ POST /api/booking-requests
CeilDiv(a, b) == IF a % b = 0 THEN a \div b ELSE (a \div b) + 1

\* the handler without its test of totalDays
SubmitBookingRequestNoTest(vehicleInputs, intervalInputs) ==
    \E c \in CustomerIds, v \in vehicleInputs, iv \in intervalInputs :
        LET totalDays == CeilDiv(iv[2] - iv[1], TicksPerDay) IN
        /\ nextRequestId <= MaxRequests
        /\ bookingRequests' =
             createBookingRequest(bookingRequests, nextRequestId,
                 [customerId |-> c, vehicleId |-> v.vehicleId,
                  vehicleName |-> v.vehicleName,
                  startDate |-> iv[1], endDate |-> iv[2],
                  totalDays |-> totalDays, status |-> "pending"])
        /\ nextRequestId' = nextRequestId + 1
        /\ resp' = [op |-> "submit", code |-> 200, id |-> nextRequestId,
                    customerId |-> c,
                    startDate |-> iv[1], endDate |-> iv[2]]
        /\ UNCHANGED <<rentals, customers, nextRentalId, conv, chk, reviews,
                       rev, img>>

\* the handler with an availability gate in front of the insert
SubmitBookingRequestGated(vehicleInputs, intervalInputs) ==
    \E c \in CustomerIds, v \in vehicleInputs, iv \in intervalInputs :
        LET totalDays == CeilDiv(iv[2] - iv[1], TicksPerDay) IN
        IF totalDays <= 0
        THEN /\ resp' = [op |-> "submit", code |-> 400, id |-> 0,
                         customerId |-> c,
                         startDate |-> iv[1], endDate |-> iv[2]]
             /\ UNCHANGED <<rentals, bookingRequests, customers, nextRentalId,
                            nextRequestId, conv, chk, reviews, rev, img>>
        ELSE IF ~ checkVehicleAvailability(rentals, v.vehicleName,
                                           iv[1], iv[2], 0)
        THEN /\ resp' = [op |-> "submit", code |-> 409, id |-> 0,
                         customerId |-> c,
                         startDate |-> iv[1], endDate |-> iv[2]]
             /\ UNCHANGED <<rentals, bookingRequests, customers, nextRentalId,
                            nextRequestId, conv, chk, reviews, rev, img>>
        ELSE /\ nextRequestId <= MaxRequests
             /\ bookingRequests' =
                  createBookingRequest(bookingRequests, nextRequestId,
                      [customerId |-> c, vehicleId |-> v.vehicleId,
                       vehicleName |-> v.vehicleName,
                       startDate |-> iv[1], endDate |-> iv[2],
                       totalDays |-> totalDays, status |-> "pending"])
             /\ nextRequestId' = nextRequestId + 1
             /\ resp' = [op |-> "submit", code |-> 200, id |-> nextRequestId,
                         customerId |-> c,
                         startDate |-> iv[1], endDate |-> iv[2]]
             /\ UNCHANGED <<rentals, customers, nextRentalId, conv, chk,
                            reviews, rev, img>>

\* resp records the request body (customerId, startDate, endDate) with the
\* answer; id is 0 when nothing was stored
SubmitBookingRequest(vehicleInputs, intervalInputs) ==
    \E c \in CustomerIds, v \in vehicleInputs, iv \in intervalInputs :
        LET totalDays == CeilDiv(iv[2] - iv[1], TicksPerDay) IN
        IF totalDays <= 0
        THEN /\ resp' = [op |-> "submit", code |-> 400, id |-> 0,
                         customerId |-> c,
                         startDate |-> iv[1], endDate |-> iv[2]]
             /\ UNCHANGED <<rentals, bookingRequests, customers, nextRentalId,
                            nextRequestId, conv, chk, reviews, rev, img>>
        ELSE /\ nextRequestId <= MaxRequests
             /\ bookingRequests' =
                  createBookingRequest(bookingRequests, nextRequestId,
                      [customerId |-> c, vehicleId |-> v.vehicleId,
                       vehicleName |-> v.vehicleName,
                       startDate |-> iv[1], endDate |-> iv[2],
                       totalDays |-> totalDays, status |-> "pending"])
             /\ nextRequestId' = nextRequestId + 1
             /\ resp' = [op |-> "submit", code |-> 200, id |-> nextRequestId,
                         customerId |-> c,
                         startDate |-> iv[1], endDate |-> iv[2]]
             /\ UNCHANGED <<rentals, customers, nextRentalId, conv, chk,
                            reviews, rev, img>>

\* ------------------------- PATCH /api/staff/booking-requests/:id/status
DecideBookingRequest(statuses, staffIds, reasons) ==
    \E id \in RequestIdInputs, status \in statuses,
       staffId \in staffIds, reason \in reasons :
        /\ bookingRequests' =
             updateBookingRequestStatus(bookingRequests, id, status,
                                        staffId, reason)
        /\ resp' = [op |-> "decide", code |-> 200, id |-> id,
                    status |-> status]
        /\ UNCHANGED <<rentals, customers, nextRentalId, nextRequestId, conv,
                       chk, reviews, rev, img>>

\* ------------------------------- DELETE /api/staff/booking-requests/:id
WithdrawBookingRequest ==
    \E id \in RequestIdInputs :
        IF getBookingRequestById(bookingRequests, id) = NoRow
        THEN /\ resp' = [op |-> "withdraw", code |-> 404, id |-> id]
             /\ UNCHANGED <<rentals, bookingRequests, customers, nextRentalId,
                            nextRequestId, conv, chk, reviews, rev, img>>
        ELSE /\ bookingRequests' = deleteBookingRequest(bookingRequests, id)
             /\ resp' = [op |-> "withdraw", code |-> 200, id |-> id]
             /\ UNCHANGED <<rentals, customers, nextRentalId, nextRequestId,
                            conv, chk, reviews, rev, img>>

\* ----------------- POST /api/staff/booking-requests/:id/complete-booking
\* The handler awaits storage five times; every await is a point where
\* other handlers run.  conv[s] is the handler instance of session s.

\* the handler without its status test (status !== 'confirmed' -> 400)
CompleteBookingBeginNoTest(s) ==
    /\ conv[s].pc = "idle"
    /\ \E id \in RequestIdInputs :
        LET bookingRequest == getBookingRequestById(bookingRequests, id) IN
        IF bookingRequest = NoRow
        THEN /\ resp' = [op |-> "convert", code |-> 404, id |-> id,
                         session |-> s]
             /\ UNCHANGED conv
        ELSE /\ conv' = [conv EXCEPT ![s] =
                           [pc |-> "gotRequest", requestId |-> id,
                            request |-> bookingRequest]]
             /\ UNCHANGED resp
    /\ UNCHANGED <<rentals, bookingRequests, customers, nextRentalId,
                   nextRequestId, chk, reviews, rev, img>>

\* await getBookingRequestById, then the status test
CompleteBookingBegin(s) ==
    /\ conv[s].pc = "idle"
    /\ \E id \in RequestIdInputs :
        LET bookingRequest == getBookingRequestById(bookingRequests, id) IN
        IF bookingRequest = NoRow
        THEN /\ resp' = [op |-> "convert", code |-> 404, id |-> id,
                         session |-> s]
             /\ UNCHANGED conv
        ELSE IF bookingRequest.status # "confirmed"
        THEN /\ resp' = [op |-> "convert", code |-> 400, id |-> id,
                         session |-> s]
             /\ UNCHANGED conv
        ELSE /\ conv' = [conv EXCEPT ![s] =
                           [pc |-> "gotRequest", requestId |-> id,
                            request |-> bookingRequest]]
             /\ UNCHANGED resp
    /\ UNCHANGED <<rentals, bookingRequests, customers, nextRentalId,
                   nextRequestId, chk, reviews, rev, img>>

\* await getCustomerById, await getVehicleById (the vehicles table is fixed,
\* so the two reads are taken in one step)
CompleteBookingLookup(s) ==
    /\ conv[s].pc = "gotRequest"
    /\ LET customer == getCustomerById(conv[s].request.customerId)
           vehicle == getVehicleById(conv[s].request.vehicleId)
       IN  IF customer = NoRow \/ vehicle = NoRow
           THEN /\ resp' = [op |-> "convert", code |-> 404,
                            id |-> conv[s].requestId, session |-> s]
                /\ conv' = [conv EXCEPT ![s] = IdleConv]
           ELSE /\ conv' = [conv EXCEPT ![s].pc = "validated"]
                /\ UNCHANGED resp
    /\ UNCHANGED <<rentals, bookingRequests, customers, nextRentalId,
                   nextRequestId, chk, reviews, rev, img>>

\* await storage.createRental(rentalData)
CompleteBookingCreate(s) ==
    /\ conv[s].pc = "validated"
    /\ nextRentalId <= MaxRentals
    /\ rentals' = createRental(rentals, nextRentalId,
                     [customerId |-> conv[s].request.customerId,
                      vehicle |-> conv[s].request.vehicleName,
                      startDate |-> conv[s].request.startDate,
                      endDate |-> conv[s].request.endDate,
                      status |-> "pending"])
    /\ nextRentalId' = nextRentalId + 1
    /\ conv' = [conv EXCEPT ![s].pc = "created"]
    /\ UNCHANGED <<bookingRequests, customers, nextRequestId, chk, resp,
                   reviews, rev, img>>

\* await storage.updateBookingRequestStatus(requestId, 'completed', null, ..)
CompleteBookingFinish(s) ==
    /\ conv[s].pc = "created"
    /\ bookingRequests' =
         updateBookingRequestStatus(bookingRequests, conv[s].requestId,
             "completed", 0, "Converted to rental agreement")
    /\ resp' = [op |-> "convert", code |-> 200, id |-> conv[s].requestId,
                session |-> s]
    /\ conv' = [conv EXCEPT ![s] = IdleConv]
    /\ UNCHANGED <<rentals, customers, nextRentalId, nextRequestId, chk,
                   reviews, rev, img>>

\* the second write rejects (storage failure): the catch block answers 500
CompleteBookingFail(s) ==
    /\ conv[s].pc = "created"
    /\ resp' = [op |-> "convert", code |-> 500, id |-> conv[s].requestId,
                session |-> s]
    /\ conv' = [conv EXCEPT ![s] = IdleConv]
    /\ UNCHANGED <<rentals, bookingRequests, customers, nextRentalId,
                   nextRequestId, chk, reviews, rev, img>>

\* ------------------------------------------------------ POST /api/rentals
CreateRental ==
    \E c \in CustomerIds, vehicle \in VehicleNames,
       iv \in RentalIntervalInputs :
        /\ nextRentalId <= MaxRentals
        /\ rentals' = createRental(rentals, nextRentalId,
                         [customerId |-> c, vehicle |-> vehicle,
                          startDate |-> iv[1], endDate |-> iv[2],
                          status |-> RentalStatusDefault])
        /\ nextRentalId' = nextRentalId + 1
        /\ resp' = [op |-> "create", code |-> 200, id |-> nextRentalId]
        /\ UNCHANGED <<bookingRequests, customers, nextRequestId, conv, chk,
                       reviews, rev, img>>

\* ------------------------------- POST /api/rentals/:id/generate-agreement
GenerateAgreement ==
    \E id \in RentalIdInputs :
        LET rentalRecord == getRentalById(rentals, id) IN
        IF rentalRecord = NoRow
        THEN /\ resp' = [op |-> "generate", code |-> 404, id |-> id]
             /\ UNCHANGED <<rentals, bookingRequests, customers, nextRentalId,
                            nextRequestId, conv, chk, reviews, rev, img>>
        ELSE IF getCustomerById(rentalRecord.customerId) = NoRow
        THEN /\ resp' = [op |-> "generate", code |-> 404, id |-> id]
             /\ UNCHANGED <<rentals, bookingRequests, customers, nextRentalId,
                            nextRequestId, conv, chk, reviews, rev, img>>
        ELSE /\ rentals' = updateRentalPdf(rentals, id)
             /\ resp' = [op |-> "generate", code |-> 200, id |-> id]
             /\ UNCHANGED <<bookingRequests, customers, nextRentalId,
                            nextRequestId, conv, chk, reviews, rev, img>>

\* ---------------------------------- PATCH /api/staff/rentals/:id/complete
CompleteRental ==
    \E id \in RentalIdInputs :
        IF getRentalById(rentals, id) = NoRow
        THEN /\ resp' = [op |-> "complete", code |-> 404, id |-> id]
             /\ UNCHANGED <<rentals, bookingRequests, customers, nextRentalId,
                            nextRequestId, conv, chk, reviews, rev, img>>
        ELSE /\ rentals' =
                  LET updated ==
                        updateRental(rentals, id, [status |-> "completed"])
                      rental == getRentalById(rentals, id)
                  IN  \* generateAndSendRentalAgreement posts to
                      \* /api/rentals/:id/generate-agreement
                      IF getCustomerById(rental.customerId) # NoRow
                      THEN updateRentalPdf(updated, id)
                      ELSE updated
             /\ resp' = [op |-> "complete", code |-> 200, id |-> id]
             /\ UNCHANGED <<bookingRequests, customers, nextRentalId,
                            nextRequestId, conv, chk, reviews, rev, img>>

\* ------------------------------------ PATCH /api/staff/rentals/:id/cancel
CancelRental ==
    \E id \in RentalIdInputs :
        /\ rentals' = updateRentalStatus(rentals, id, "cancelled")
        /\ resp' = [op |-> "cancel", code |-> 200, id |-> id]
        /\ UNCHANGED <<bookingRequests, customers, nextRentalId,
                       nextRequestId, conv, chk, reviews, rev, img>>

\* ------------------------------------------ DELETE /api/staff/rentals/:id
DeleteRental ==
    \E id \in RentalIdInputs :
        IF getRentalById(rentals, id) = NoRow
        THEN /\ resp' = [op |-> "delete", code |-> 404, id |-> id]
             /\ UNCHANGED <<rentals, bookingRequests, customers, nextRentalId,
                            nextRequestId, conv, chk, reviews, rev, img>>
        ELSE /\ rentals' = deleteRental(rentals, id)
             /\ resp' = [op |-> "delete", code |-> 200, id |-> id]
             /\ UNCHANGED <<bookingRequests, customers, nextRentalId,
                            nextRequestId, conv, chk, reviews, rev, img>>

\* ---------------------------------------- DELETE /api/staff/customers/:id
DeleteCustomer ==
    \E id \in CustomerIds :
        /\ rentals' = {r \in rentals : r.customerId # id}
        /\ customers' = [customers EXCEPT ![id] = NoRow]
        /\ resp' = [op |-> "deleteCustomer", code |-> 200, id |-> id]
        /\ UNCHANGED <<bookingRequests, nextRentalId, nextRequestId, conv,
                       chk, reviews, rev, img>>

\* ------------------------------------------- POST /api/customers/login
\* the e-mail address is stood for by the id of the customer it belongs to
CustomerLogin ==
    \E id \in CustomerIdInputs :
        LET customer == getCustomerById(id) IN
        /\ resp' = [op |-> "login", id |-> id,
                    code |-> IF customer = NoRow THEN 401
                             ELSE IF customer.status = "blacklisted" THEN 403
                             ELSE 200]
        /\ UNCHANGED <<rentals, bookingRequests, customers, nextRentalId,
                       nextRequestId, conv, chk, reviews, rev, img>>

\* -------------------------------- POST /api/customers/:id/accept-terms
AcceptTerms ==
    \E customerId \in CustomerIdInputs :
        /\ customers' = updateCustomerTermsAcceptance(customers, customerId)
        /\ resp' = [op |-> "acceptTerms", code |-> 200, id |-> customerId]
        /\ UNCHANGED <<rentals, bookingRequests, nextRentalId, nextRequestId,
                       conv, chk, reviews, rev, img>>

\* ---------------------------------- PATCH /api/staff/customers/:id/status
UpdateCustomerStatus ==
    \E id \in CustomerIdInputs, status \in CustomerStatusInputs :
        IF status \notin {"active", "blacklisted"}
        THEN /\ resp' = [op |-> "customerStatus", code |-> 400, id |-> id]
             /\ UNCHANGED <<rentals, bookingRequests, customers, nextRentalId,
                            nextRequestId, conv, chk, reviews, rev, img>>
        ELSE /\ customers' = updateCustomerStatus(customers, id, status)
             /\ resp' = [op |-> "customerStatus", code |-> 200, id |-> id]
             /\ UNCHANGED <<rentals, bookingRequests, nextRentalId,
                            nextRequestId, conv, chk, reviews, rev, img>>

\* ------------------------------------------------- compressImageDetailed
Max(a, b) == IF a >= b THEN a ELSE b

\* Math.round(x * 0.85) for a whole number x
RoundShrink(x) == (x * 85 + 50) \div 100

\* the call up to the start of the compression loop: the format test, the
\* early return for a file that is small enough, the image load and the
\* initial resize
CompressStart ==
    /\ img.pc \in {"idle", "resolved", "rejected"}
    /\ \E opts \in OptionInputs, fileSize \in FileSizeInputs,
          fileExt \in FileExtInputs, size \in ImageSizeInputs,
          loaded \in BOOLEAN :
        LET targetBytes == opts.maxSizeInMB * 1024 * 1024
            blank == [IdleImg EXCEPT !.fileSize = fileSize,
                                     !.targetBytes = targetBytes]
            resizedWidth ==
                IF size[1] > opts.maxWidth \/ size[2] > opts.maxHeight
                THEN IF size[1] > size[2]
                     THEN opts.maxWidth
                     ELSE (opts.maxHeight * size[1]) \div size[2]
                ELSE size[1]
            resizedHeight ==
                IF size[1] > opts.maxWidth \/ size[2] > opts.maxHeight
                THEN IF size[1] > size[2]
                     THEN (opts.maxWidth * size[2]) \div size[1]
                     ELSE opts.maxHeight
                ELSE size[2]
        IN  img' =
              IF fileExt = "heic"
              THEN [blank EXCEPT !.pc = "rejected"]
              ELSE IF fileSize <= targetBytes
              THEN [blank EXCEPT !.pc = "resolved", !.finalSize = fileSize]
              ELSE IF ~ loaded
              THEN [blank EXCEPT !.pc = "rejected"]
              ELSE [blank EXCEPT !.pc = "loop",
                                 !.quality = opts.quality,
                                 !.startQuality = opts.quality,
                                 !.minQuality = opts.minQuality,
                                 !.width = resizedWidth,
                                 !.height = resizedHeight]
    /\ UNCHANGED <<rentals, bookingRequests, customers, nextRentalId,
                   nextRequestId, conv, chk, resp, reviews, rev>>

\* one pass of the while loop: encode, test the size, adjust the settings
CompressIterate ==
    /\ img.pc = "loop"
    /\ img.iterations < 10
    /\ \E blobSize \in BlobSizeInputs :
        LET counted == [img EXCEPT !.iterations = img.iterations + 1] IN
        img' =
          IF blobSize = 0
          THEN [img EXCEPT !.pc = "rejected"]
          ELSE IF blobSize <= img.targetBytes
          THEN [counted EXCEPT !.pc = "resolved", !.finalSize = blobSize]
          ELSE IF img.quality > img.minQuality
          THEN [counted EXCEPT
                  !.quality = Max(img.minQuality, img.quality - 10)]
          ELSE IF /\ img.width > defaultOptions.minWidth
                  /\ img.height > defaultOptions.minHeight
          THEN [counted EXCEPT
                  !.quality = img.startQuality,
                  !.width = Max(defaultOptions.minWidth,
                                RoundShrink(img.width)),
                  !.height = Max(defaultOptions.minHeight,
                                 RoundShrink(img.height))]
          ELSE [counted EXCEPT !.pc = "resolved", !.finalSize = blobSize]
    /\ UNCHANGED <<rentals, bookingRequests, customers, nextRentalId,
                   nextRequestId, conv, chk, resp, reviews, rev>>

\* the loop ends after ten passes without a final blob: the call throws
CompressGiveUp ==
    /\ img.pc = "loop"
    /\ img.iterations >= 10
    /\ img' = [img EXCEPT !.pc = "rejected"]
    /\ UNCHANGED <<rentals, bookingRequests, customers, nextRentalId,
                   nextRequestId, conv, chk, resp, reviews, rev>>

\* ---------------------------------------- POST /api/customers/reviews
\* The handler awaits storage four times; rev[s] is the handler instance of
\* session s.  customerId 0 stands for a request without customer-id header.

\* the header test, then await storage.createCustomerReview
ReviewCreate(s) ==
    /\ rev[s].pc = "idle"
    /\ \E customerId \in CustomerIds \cup {0}, rating \in RatingInputs :
        IF customerId = 0
        THEN /\ resp' = [op |-> "review", code |-> 400, id |-> 0,
                         session |-> s]
             /\ UNCHANGED <<reviews, rev>>
        ELSE /\ Cardinality(reviews) < MaxReviews
             /\ reviews' = createCustomerReview(reviews,
                               [customerId |-> customerId, rating |-> rating])
             /\ rev' = [rev EXCEPT ![s] =
                          [pc |-> "created", customerId |-> customerId,
                           reviewId |-> Cardinality(reviews) + 1,
                           newPoints |-> 0]]
             /\ UNCHANGED resp
    /\ UNCHANGED <<rentals, bookingRequests, customers, nextRentalId,
                   nextRequestId, conv, chk, img>>

\* await storage.getCustomerById; newPoints = (totalPoints || 0) + 25
ReviewRead(s) ==
    /\ rev[s].pc = "created"
    /\ LET currentCustomer == getCustomerById(rev[s].customerId)
           totalPoints == IF currentCustomer = NoRow THEN 0
                          ELSE currentCustomer.totalPoints
       IN  rev' = [rev EXCEPT ![s].pc = "read",
                              ![s].newPoints = totalPoints + ReviewPoints]
    /\ UNCHANGED <<rentals, bookingRequests, customers, nextRentalId,
                   nextRequestId, conv, chk, resp, reviews, img>>

\* await storage.updateCustomerPoints, then the activity log row (a table
\* that is not modelled) and the response
ReviewAward(s) ==
    /\ rev[s].pc = "read"
    /\ customers' = updateCustomerPoints(customers, rev[s].customerId,
                                         rev[s].newPoints)
    /\ resp' = [op |-> "review", code |-> 200, id |-> rev[s].reviewId,
                session |-> s]
    /\ rev' = [rev EXCEPT ![s] = IdleRev]
    /\ UNCHANGED <<rentals, bookingRequests, nextRentalId, nextRequestId,
                   conv, chk, reviews, img>>

\* --------------------------------- GET /api/staff/vehicle-schedule/:vehicle
GetVehicleSchedule ==
    \E vehicle \in VehicleNames, month \in MonthInputs, year \in YearInputs :
        \E schedule \in
              OrderByStartDate(getVehicleSchedule(rentals, vehicle,
                                                  month, year)) :
            /\ resp' = [op |-> "schedule", code |-> 200, vehicle |-> vehicle,
                        month |-> month, year |-> year,
                        schedule |-> schedule]
            /\ UNCHANGED <<rentals, bookingRequests, customers, nextRentalId,
                           nextRequestId, conv, chk, reviews, rev, img>>

\* ------------------------------ POST /api/vehicles/:id/check-availability
CheckVehicleAvailability(intervals) ==
    \E vehicleId \in 1..3, iv \in intervals :
        LET vehicle == getVehicleById(vehicleId) IN
        /\ IF iv[1] >= iv[2]
           THEN resp' = [op |-> "checkVehicle", code |-> 400]
           ELSE IF vehicle = NoRow
           THEN resp' = [op |-> "checkVehicle", code |-> 404]
           ELSE LET conflictingRentals ==
                      getConflictingRentals(rentals, vehicle.name,
                                            iv[1], iv[2], 0)
                IN  resp' = [op |-> "checkVehicle", code |-> 200,
                             vehicle |-> vehicle.name,
                             startDate |-> iv[1], endDate |-> iv[2],
                             excludeRentalId |-> 0,
                             available |->
                                 (Cardinality(conflictingRentals) = 0),
                             conflicts |->
                                 {r.id : r \in conflictingRentals}]
        /\ UNCHANGED <<rentals, bookingRequests, customers, nextRentalId,
                       nextRequestId, conv, chk, reviews, rev, img>>

\* -------------------------------------- POST /api/rentals/check-availability
\* first await: storage.checkVehicleAvailability; an available vehicle is
\* answered at once with an empty conflict list
CheckAvailabilityBegin(intervals) ==
    /\ chk.pc = "idle"
    /\ \E vehicle \in CheckVehicleNameInputs, iv \in intervals,
          excludeRentalId \in {0, 1} :
        LET isAvailable ==
              checkVehicleAvailability(rentals, vehicle, iv[1], iv[2],
                                       excludeRentalId)
        IN  IF vehicle = ""
            THEN /\ resp' = [op |-> "checkRentals", code |-> 400]
                 /\ UNCHANGED chk
            ELSE IF isAvailable
            THEN /\ resp' = [op |-> "checkRentals", code |-> 200,
                             vehicle |-> vehicle,
                             startDate |-> iv[1], endDate |-> iv[2],
                             excludeRentalId |-> excludeRentalId,
                             available |-> TRUE, conflicts |-> {}]
                 /\ UNCHANGED chk
            ELSE /\ chk' = [pc |-> "unavailable", vehicle |-> vehicle,
                            startDate |-> iv[1], endDate |-> iv[2],
                            excludeRentalId |-> excludeRentalId,
                            isAvailable |-> FALSE]
                 /\ UNCHANGED resp
    /\ UNCHANGED <<rentals, bookingRequests, customers, nextRentalId,
                   nextRequestId, conv, reviews, rev, img>>

\* second await: storage.getConflictingRentals, then the response
CheckAvailabilityFinish ==
    /\ chk.pc = "unavailable"
    /\ LET conflicts ==
             getConflictingRentals(rentals, chk.vehicle, chk.startDate,
                                   chk.endDate, chk.excludeRentalId)
       IN  resp' = [op |-> "checkRentals", code |-> 200,
                    vehicle |-> chk.vehicle,
                    startDate |-> chk.startDate, endDate |-> chk.endDate,
                    excludeRentalId |-> chk.excludeRentalId,
                    available |-> chk.isAvailable,
                    conflicts |-> {r.id : r \in conflicts}]
    /\ chk' = IdleChk
    /\ UNCHANGED <<rentals, bookingRequests, customers, nextRentalId,
                   nextRequestId, conv, reviews, rev, img>>

\* ---------------------------------------------------------- specification
Next ==
    \/ SubmitBookingRequest(RequestVehicleInputs, RequestIntervalInputs)
    \/ DecideBookingRequest(DecideStatusInputs, StaffIdInputs, ReasonInputs)
    \/ WithdrawBookingRequest
    \/ \E s \in Sessions : CompleteBookingBegin(s)
    \/ \E s \in Sessions : CompleteBookingLookup(s)
    \/ \E s \in Sessions : CompleteBookingCreate(s)
    \/ \E s \in Sessions : CompleteBookingFinish(s)
    \/ \E s \in Sessions : CompleteBookingFail(s)
    \/ CreateRental
    \/ GenerateAgreement
    \/ CompleteRental
    \/ CancelRental
    \/ DeleteRental
    \/ DeleteCustomer
    \/ CustomerLogin
    \/ AcceptTerms
    \/ UpdateCustomerStatus
    \/ GetVehicleSchedule
    \/ \E s \in Sessions : ReviewCreate(s)
    \/ \E s \in Sessions : ReviewRead(s)
    \/ \E s \in Sessions : ReviewAward(s)
    \/ CompressStart
    \/ CompressIterate
    \/ CompressGiveUp
    \/ CheckVehicleAvailability(CheckIntervalInputs)
    \/ CheckAvailabilityBegin(CheckIntervalInputs)
    \/ CheckAvailabilityFinish

Spec == Init /\ [][Next]_vars

\* The handlers are checked in groups that share storage: each of the
\* specifications below runs some of the handlers of Next from Init.

\* the Rental lifecycle
NextRental ==
    \/ CreateRental
    \/ GenerateAgreement
    \/ CompleteRental
    \/ CancelRental
    \/ DeleteRental
    \/ DeleteCustomer

SpecRental == Init /\ [][NextRental]_vars

\* the availability endpoints while rentals are created, cancelled and deleted
NextCheck ==
    \/ CreateRental
    \/ CancelRental
    \/ DeleteRental
    \/ CheckVehicleAvailability(CheckIntervalInputs)
    \/ CheckAvailabilityBegin(CheckIntervalInputs)
    \/ CheckAvailabilityFinish

SpecCheck == Init /\ [][NextCheck]_vars

\* the BookingRequest state machine without conversion
NextBooking ==
    \/ SubmitBookingRequest({[vehicleId |-> 1, vehicleName |-> "A"]},
                            {<<0, 1>>, <<1, 1>>})
    \/ DecideBookingRequest(DecideStatusInputs, StaffIdInputs, ReasonInputs)
    \/ WithdrawBookingRequest

SpecBooking == Init /\ [][NextBooking]_vars

\* conversion of confirmed requests by two concurrent staff sessions
NextConvert ==
    \/ SubmitBookingRequest(RequestVehicleInputs, RequestIntervalInputs)
    \/ DecideBookingRequest({"confirmed"}, {7}, {""})
    \/ \E s \in Sessions : CompleteBookingBegin(s)
    \/ \E s \in Sessions : CompleteBookingLookup(s)
    \/ \E s \in Sessions : CompleteBookingCreate(s)
    \/ \E s \in Sessions : CompleteBookingFinish(s)
    \/ \E s \in Sessions : CompleteBookingFail(s)

SpecConvert == Init /\ [][NextConvert]_vars

\* conversion by one staff session while staff decide requests
NextConvertOne ==
    \/ SubmitBookingRequest(RequestVehicleInputs, {<<0, 1>>})
    \/ DecideBookingRequest({"confirmed", "rejected"}, {7}, {"no car"})
    \/ CompleteBookingBegin(1)
    \/ CompleteBookingLookup(1)
    \/ CompleteBookingCreate(1)
    \/ CompleteBookingFinish(1)
    \/ CompleteBookingFail(1)

SpecConvertOne == Init /\ [][NextConvertOne]_vars

\* booking-request intake while staff change the customer's status
NextSubmit ==
    \/ SubmitBookingRequest(RequestVehicleInputs, SubmitIntervalInputs)
    \/ WithdrawBookingRequest
    \/ CustomerLogin
    \/ AcceptTerms
    \/ UpdateCustomerStatus

SpecSubmit == Init /\ [][NextSubmit]_vars

\* booking-request intake for a vehicle whose rentals are created and cancelled
NextIntake ==
    \/ SubmitBookingRequest({[vehicleId |-> 1, vehicleName |-> "A"]},
                            {<<0, 1>>, <<1, 2>>})
    \/ CreateRental
    \/ CancelRental

SpecIntake == Init /\ [][NextIntake]_vars

\* the vehicle schedule while rentals are created and cancelled
NextSchedule ==
    \/ CreateRental
    \/ CancelRental
    \/ GetVehicleSchedule

SpecSchedule == Init /\ [][NextSchedule]_vars

\* reviews submitted by two concurrent customer sessions
NextReview ==
    \/ \E s \in Sessions : ReviewCreate(s)
    \/ \E s \in Sessions : ReviewRead(s)
    \/ \E s \in Sessions : ReviewAward(s)

SpecReview == Init /\ [][NextReview]_vars

\* the client-side image compression, call after call
NextCompress ==
    \/ CompressStart
    \/ CompressIterate
    \/ CompressGiveUp

SpecCompress == Init /\ [][NextCompress]_vars

\* ------------------------------------------- the availability queries alone
\* Any table of at most MaxStored rentals (every vehicle, interval and status
\* can be stored), listed in a fixed order of rows, queried without writes.
RentalRows(id) ==
    [id : {id}, customerId : CustomerIds, vehicle : VehicleNames,
     startDate : Times, endDate : Times, status : RentalStatuses]

StatusRank(st) ==
    IF st = "pending" THEN 0 ELSE IF st = "completed" THEN 1 ELSE 2

RowRank(r) ==
    ((((IF r.vehicle = "A" THEN 0 ELSE 1) * 3 + StatusRank(r.status))
        * (MaxTime + 1) + r.startDate) * (MaxTime + 1)) + r.endDate

\* storage.checkVehicleAvailability and storage.getConflictingRentals applied
\* to one request
AvailabilityQuery ==
    \E vehicle \in VehicleNames, iv \in AllIntervals :
        /\ resp' = [op |-> "availability", code |-> 200,
                    vehicle |-> vehicle,
                    startDate |-> iv[1], endDate |-> iv[2],
                    excludeRentalId |-> 0,
                    available |->
                        checkVehicleAvailability(rentals, vehicle,
                                                 iv[1], iv[2], 0),
                    conflicts |->
                        {r.id : r \in getConflictingRentals(rentals, vehicle,
                                                           iv[1], iv[2], 0)}]
        /\ UNCHANGED <<rentals, bookingRequests, customers, nextRentalId,
                       nextRequestId, conv, chk, reviews, rev, img>>

InitAvail ==
    /\ \E n \in 0..MaxStored :
         \E f \in [1..n -> UNION {RentalRows(i) : i \in 1..n}] :
            /\ \A i \in 1..n : f[i].id = i
            /\ \A i \in 1..n : i < n => RowRank(f[i]) <= RowRank(f[i + 1])
            /\ rentals = {f[i] : i \in 1..n}
            /\ nextRentalId = n + 1
    /\ bookingRequests = {}
    /\ customers = [c \in CustomerIds |->
                       [id |-> c, status |-> "active", totalPoints |-> 0]]
    /\ nextRequestId = 1
    /\ conv = [s \in Sessions |-> IdleConv]
    /\ chk = IdleChk
    /\ resp = NoResp
    /\ reviews = {}
    /\ rev = [s \in Sessions |-> IdleRev]
    /\ img = IdleImg

NextAvail ==
    \/ AvailabilityQuery
    \/ CheckVehicleAvailability(CheckIntervalInputs)

SpecAvail == InitAvail /\ [][NextAvail]_vars

\* ================================================================ properties
\* resp answers an availability question about (vehicle, [startDate,endDate])
IsAvailabilityAnswer ==
    /\ resp.op \in {"availability", "checkVehicle", "checkRentals"}
    /\ resp.code = 200

WellFormed(r) == r.startDate <= r.endDate

\* the non-cancelled rentals of the vehicle the answer is about
Candidates ==
    {r \in rentals : /\ r.vehicle = resp.vehicle
                     /\ r.status # "cancelled"
                     /\ (resp.excludeRentalId # 0 => r.id # resp.excludeRentalId)}

\* the inclusive overlap predicate of the contract: a1 <= b2 and b1 <= a2
Overlaps(a1, a2, b1, b2) == a1 <= b2 /\ b1 <= a2

\* C1: any two distinct rentals of the same vehicle whose status is not
\* 'cancelled' have intervals that do not overlap (a1 <= b2 and b1 <= a2),
\* in every state reachable by accepted operations.
C1_NonOverlap ==
    \A r1 \in rentals : \A r2 \in rentals :
        (/\ r1.id # r2.id
         /\ r1.vehicle = r2.vehicle
         /\ r1.status # "cancelled"
         /\ r2.status # "cancelled")
          => ~ Overlaps(r1.startDate, r1.endDate, r2.startDate, r2.endDate)

\* C2: of two complete-booking calls in flight at the same time for two
\* different confirmed requests on the same vehicle with overlapping
\* intervals, only one creates a Rental: they are never both past
\* createRental.
C2_OneConversionWins ==
    \A s1 \in Sessions : \A s2 \in Sessions :
        (/\ s1 # s2
         /\ conv[s1].pc # "idle"
         /\ conv[s2].pc # "idle"
         /\ conv[s1].requestId # conv[s2].requestId
         /\ conv[s1].request.vehicleName = conv[s2].request.vehicleName
         /\ Overlaps(conv[s1].request.startDate, conv[s1].request.endDate,
                     conv[s2].request.startDate, conv[s2].request.endDate))
          => ~ (conv[s1].pc = "created" /\ conv[s2].pc = "created")

\* a non-cancelled rental of the request's vehicle overlaps the interval of
\* the request session s is converting
ConflictAtConversion(s) ==
    \E r \in rentals :
        /\ r.vehicle = conv[s].request.vehicleName
        /\ r.status # "cancelled"
        /\ Overlaps(r.startDate, r.endDate,
                    conv[s].request.startDate, conv[s].request.endDate)

\* C3: a conversion checks availability when it converts: while a
\* non-cancelled rental of the same vehicle overlaps the request's interval,
\* complete-booking creates no Rental.
C3_ConversionChecksAvailability ==
    [][\A s \in Sessions :
          (conv[s].pc = "validated" /\ ConflictAtConversion(s))
            => ~ (conv'[s].pc = "created" /\ rentals' # rentals)]_vars

\* C4: POST /api/rentals re-validates availability: a rental it has just
\* created overlaps no other non-cancelled rental of the same vehicle.
C4_CreateRevalidates ==
    (resp.op = "create" /\ resp.code = 200) =>
        \A new \in rentals : \A r \in rentals :
            (/\ new.id = resp.id
             /\ r.id # new.id
             /\ r.vehicle = new.vehicle
             /\ r.status # "cancelled")
              => ~ Overlaps(r.startDate, r.endDate,
                            new.startDate, new.endDate)

\* C5: for a stored interval [s,e] with s <= e and a requested interval
\* [S,E] with S <= E, the rental is reported as a conflict by
\* getConflictingRentals, and counted by checkVehicleAvailability, exactly
\* when s <= E and S <= e.
C5_ThreeCasesAreOverlap ==
    (IsAvailabilityAnswer /\ resp.startDate <= resp.endDate) =>
        /\ \A r \in Candidates :
              WellFormed(r) =>
                 ((r.id \in resp.conflicts) <=>
                    Overlaps(r.startDate, r.endDate,
                             resp.startDate, resp.endDate))
        /\ (\A r \in Candidates : WellFormed(r)) =>
              (resp.available <=>
                 ~ \E r \in Candidates :
                      Overlaps(r.startDate, r.endDate,
                               resp.startDate, resp.endDate))

\* a rental strictly inside the requested interval is reported: only the
\* third case of the WHERE clause matches it
C5_Witness ==
    /\ IsAvailabilityAnswer
    /\ \E r \in Candidates :
          /\ resp.startDate < r.startDate
          /\ r.startDate <= r.endDate
          /\ r.endDate < resp.endDate
          /\ r.id \in resp.conflicts
          /\ ~ resp.available

\* the requested interval stored as the only rental of the vehicle
AsStored(vehicle, startDate, endDate) ==
    {[id |-> 1, customerId |-> 1, vehicle |-> vehicle,
      startDate |-> startDate, endDate |-> endDate, status |-> "pending"]}

\* C6: the overlap decision is symmetric: a stored rental A conflicts with
\* a requested interval B exactly when B, stored, conflicts with A requested.
C6_OverlapSymmetric ==
    (IsAvailabilityAnswer /\ resp.startDate <= resp.endDate) =>
        \A r \in Candidates :
            WellFormed(r) =>
               ((r.id \in resp.conflicts) <=>
                   (getConflictingRentals(
                        AsStored(resp.vehicle, resp.startDate, resp.endDate),
                        resp.vehicle, r.startDate, r.endDate, 0) # {}))

\* a request that starts before a stored rental and ends inside it is
\* reported, and the swapped question reports it too
C6_Witness ==
    /\ IsAvailabilityAnswer
    /\ \E r \in Candidates :
          /\ resp.startDate < r.startDate
          /\ r.startDate <= resp.endDate
          /\ resp.endDate < r.endDate
          /\ r.id \in resp.conflicts
          /\ getConflictingRentals(
                 AsStored(resp.vehicle, resp.startDate, resp.endDate),
                 resp.vehicle, r.startDate, r.endDate, 0) # {}

\* C7: touching intervals conflict.  With a non-cancelled rental [d1,d2] of
\* the vehicle, a request [d2,d3] with d3 > d2 is answered available=false;
\* a request that starts after d2 is answered available=true when no other
\* rental of the vehicle intersects it.
C7_TouchingConflicts ==
    IsAvailabilityAnswer =>
        /\ (/\ resp.startDate < resp.endDate
            /\ \E r \in Candidates :
                  WellFormed(r) /\ r.endDate = resp.startDate)
              => (~ resp.available /\ resp.conflicts # {})
        /\ (/\ resp.startDate <= resp.endDate
            /\ \E r \in Candidates :
                  /\ WellFormed(r)
                  /\ r.endDate < resp.startDate
                  /\ \A o \in Candidates \ {r} :
                        /\ WellFormed(o)
                        /\ ~ Overlaps(o.startDate, o.endDate,
                                      resp.startDate, resp.endDate))
              => (resp.available /\ resp.conflicts = {})

RequestTransitions ==
    {<<"pending", "confirmed">>, <<"pending", "rejected">>,
     <<"confirmed", "completed">>}

C7_Witness ==
    /\ resp.op = "checkVehicle"
    /\ resp.code = 200
    /\ resp.startDate < resp.endDate
    /\ ~ resp.available
    /\ \E r \in Candidates :
          /\ r.startDate < r.endDate
          /\ r.endDate = resp.startDate
          /\ resp.conflicts = {r.id}

\* C11: complete-booking succeeds only for a request it read as 'confirmed'.
\* A call that goes on past the status test read a 'confirmed' request; the
\* rental it creates is the one new row, 'pending', with the request's
\* customerId, vehicle name, startDate and endDate; its answer 200 leaves
\* the request 'completed'.  A call on a request in any other status does
\* not go on, and its answer 400 changes no rental and no request.
C11_ConvertContract ==
    [][\A s \in Sessions :
          /\ (conv[s].pc = "idle" /\ conv'[s].pc # "idle") =>
                \E b \in bookingRequests :
                    /\ b.id = conv'[s].requestId
                    /\ b.status = "confirmed"
                    /\ conv'[s].request = b
          /\ (conv[s].pc = "validated" /\ conv'[s].pc = "created") =>
                /\ Cardinality(rentals' \ rentals) = 1
                /\ rentals \subseteq rentals'
                /\ \A r \in rentals' \ rentals :
                      /\ r.status = "pending"
                      /\ r.customerId = conv[s].request.customerId
                      /\ r.vehicle = conv[s].request.vehicleName
                      /\ r.startDate = conv[s].request.startDate
                      /\ r.endDate = conv[s].request.endDate
          /\ (/\ conv[s].pc = "created"
              /\ conv'[s].pc = "idle"
              /\ resp'.code = 200) =>
                /\ resp'.op = "convert"
                /\ rentals' = rentals
                /\ \A b \in bookingRequests' :
                      b.id = conv[s].requestId => b.status = "completed"
          /\ (/\ conv[s].pc = "idle"
              /\ resp' # resp
              /\ resp'.op = "convert"
              /\ resp'.session = s
              /\ resp'.code = 400) =>
                /\ \E b \in bookingRequests :
                      b.id = resp'.id /\ b.status # "confirmed"
                /\ rentals' = rentals
                /\ bookingRequests' = bookingRequests
                /\ conv' = conv]_vars

\* a conversion has answered 200: its request is 'completed' and a 'pending'
\* rental carries the request's customer, vehicle name and interval
C11_Witness ==
    /\ resp.op = "convert"
    /\ resp.code = 200
    /\ \E b \in bookingRequests :
          /\ b.id = resp.id
          /\ b.status = "completed"
          /\ \E r \in rentals :
                /\ r.status = "pending"
                /\ r.customerId = b.customerId
                /\ r.vehicle = b.vehicleName
                /\ r.startDate = b.startDate
                /\ r.endDate = b.endDate

C15_IntervalValidatedAtIntake ==
    [][/\ (resp'.op = "submit" /\ resp'.endDate <= resp'.startDate) =>
              /\ resp'.code = 400
              /\ bookingRequests' = bookingRequests
       /\ \A b \in bookingRequests' :
              /\ b.endDate > b.startDate
              /\ b.totalDays > 0
              /\ b.totalDays * TicksPerDay >= b.endDate - b.startDate
              /\ (b.totalDays - 1) * TicksPerDay < b.endDate - b.startDate
       /\ \A b \in bookingRequests' \ bookingRequests :
              b.status = "pending"]_vars

\* a submit with endDate <= startDate has been answered 400 while a request
\* over half a day is stored with totalDays = 1
C15_Witness ==
    /\ resp.op = "submit"
    /\ resp.code = 400
    /\ resp.endDate <= resp.startDate
    /\ \E b \in bookingRequests :
          /\ b.totalDays = 1
          /\ b.endDate - b.startDate < TicksPerDay

\* C16: submit does not gate on availability: with a valid interval the
\* request is stored in 'pending' whatever rentals the vehicle has, and
\* submit leaves the rentals as they are.
C16_SubmitNotGated ==
    [][resp'.op = "submit" =>
          /\ rentals' = rentals
          /\ resp'.endDate > resp'.startDate =>
                /\ resp'.code = 200
                /\ \E b \in bookingRequests' \ bookingRequests :
                      /\ b.id = resp'.id
                      /\ b.status = "pending"
                      /\ b.startDate = resp'.startDate
                      /\ b.endDate = resp'.endDate]_vars

\* a request has just been stored in 'pending' while a non-cancelled rental
\* of its vehicle overlaps its interval
C16_Witness ==
    /\ resp.op = "submit"
    /\ resp.code = 200
    /\ \E b \in bookingRequests :
          /\ b.id = resp.id
          /\ b.status = "pending"
          /\ \E r \in rentals :
                /\ r.vehicle = b.vehicleName
                /\ r.status # "cancelled"
                /\ WellFormed(r)
                /\ Overlaps(r.startDate, r.endDate, b.startDate, b.endDate)

\* the customer with this id exists and is blacklisted
IsBlacklisted(id) ==
    IF getCustomerById(id) = NoRow
    THEN FALSE
    ELSE getCustomerById(id).status = "blacklisted"

\* C17: while a customer is blacklisted no login of the customer succeeds
\* and no booking request with the customer's id is stored.
C17_BlacklistedRejected ==
    [][/\ (resp'.op = "login" /\ IsBlacklisted(resp'.id))
             => resp'.code # 200
       /\ \A b \in bookingRequests' \ bookingRequests :
             ~ IsBlacklisted(b.customerId)]_vars

\* C18: complete answers NotFound for an unknown rental id and fails for a
\* rental whose status is not 'pending', changing no rental in both cases;
\* on a 'pending' rental it sets status 'completed'.
C18_CompleteOnlyFromPending ==
    [][resp'.op = "complete" =>
          LET rental == getRentalById(rentals, resp'.id) IN
          IF rental = NoRow
          THEN resp'.code = 404 /\ rentals' = rentals
          ELSE IF rental.status # "pending"
          THEN resp'.code # 200 /\ rentals' = rentals
          ELSE /\ resp'.code = 200
               /\ getRentalById(rentals', resp'.id).status = "completed"]_vars

\* C19: cancel on a rental whose status is not 'pending' fails and leaves
\* the rental unchanged.
C19_CancelOnlyFromPending ==
    [][resp'.op = "cancel" =>
          \A r \in rentals :
              (r.id = resp'.id /\ r.status # "pending")
                => (resp'.code # 200 /\ r \in rentals')]_vars

\* C20: 'completed' and 'cancelled' are terminal: a rental in one of them
\* that is not deleted keeps its status in every step.
C20_TerminalStatuses ==
    [][\A r \in rentals : \A r2 \in rentals' :
          (r2.id = r.id /\ r.status \in {"completed", "cancelled"})
            => r2.status = r.status]_vars

\* C21: a rental leaves 'pending' for 'completed' only through the staff
\* complete operation: agreement generation never moves a 'pending' rental
\* to 'completed'.
C21_OnlyCompleteCompletes ==
    [][\A r \in rentals : \A r2 \in rentals' :
          (/\ r2.id = r.id
           /\ r.status = "pending"
           /\ r2.status = "completed")
            => resp'.op = "complete"]_vars

\* the instants of a calendar month: from its first instant up to, not
\* including, the first instant of the next month
InMonth(t, month, year) ==
    /\ t >= StartOfMonth(month, year)
    /\ t < StartOfMonth(month, year) + TicksPerMonth

\* C22: the schedule of a vehicle lists exactly its non-cancelled rentals
\* whose interval [startDate,endDate] intersects the calendar month asked
\* for (all of them when month and year are omitted), in ascending
\* startDate.  Rentals with startDate > endDate are left aside.
C22_ScheduleExact ==
    resp.op = "schedule" =>
        LET n == Len(resp.schedule)
            listed == {resp.schedule[i] : i \in 1..n}
        IN  /\ \A i, j \in 1..n :
                  i < j => resp.schedule[i].startDate
                              <= resp.schedule[j].startDate
            /\ \A r \in listed :
                  /\ r \in rentals
                  /\ r.vehicle = resp.vehicle
                  /\ r.status # "cancelled"
            /\ \A r \in rentals :
                  (/\ r.vehicle = resp.vehicle
                   /\ r.status # "cancelled"
                   /\ WellFormed(r))
                    => (r \in listed <=>
                          \/ resp.month = 0
                          \/ resp.year = 0
                          \/ \E t \in r.startDate..r.endDate :
                                InMonth(t, resp.month, resp.year))

\* C23: the two availability endpoints answer available=true/false only
\* for an interval with end > start and a vehicle that exists.
C23_AvailabilityValidatesInput ==
    (resp.op \in {"checkVehicle", "checkRentals"} /\ resp.code = 200) =>
        /\ resp.startDate < resp.endDate
        /\ resp.vehicle \in VehicleNames

\* the row with this id is in the table
Exists(table, id) == \E x \in table : x.id = id

\* C24: an operation addressed to a BookingRequest or Rental id that does
\* not exist answers 404 and leaves rentals and bookingRequests unchanged.
C24_MissingIdIsNotFound ==
    [][/\ (/\ resp'.op \in {"complete", "cancel", "delete"}
           /\ ~ Exists(rentals, resp'.id))
             => (resp'.code = 404 /\ UNCHANGED <<rentals, bookingRequests>>)
       /\ (/\ resp'.op \in {"decide", "withdraw"}
           /\ ~ Exists(bookingRequests, resp'.id))
             => (resp'.code = 404 /\ UNCHANGED <<rentals, bookingRequests>>)
      ]_vars

\* the statuses of the BookingRequest state machine
RequestStatuses == {"pending", "confirmed", "rejected", "completed"}

\* C25: the status of every BookingRequest is one of pending, confirmed,
\* rejected, completed in every reachable state.
C25_RequestStatusDomain ==
    \A b \in bookingRequests : b.status \in RequestStatuses

\* C27: every answer of POST /api/rentals/check-availability has
\* available = true exactly when its conflicts list is empty.
C27_AvailableIffNoConflicts ==
    (resp.op = "checkRentals" /\ resp.code = 200) =>
        (resp.available <=> resp.conflicts = {})

\* C28: conversion is all-or-nothing: a complete-booking call that has
\* created its rental ends with the request 'completed'.
C28_ConversionAllOrNothing ==
    [][\A s \in Sessions :
          (conv[s].pc = "created" /\ conv'[s].pc = "idle") =>
              \A b \in bookingRequests' :
                  b.id = conv[s].requestId => b.status = "completed"]_vars

\* C29: a blacklisted customer becomes 'active' only through the staff
\* status update; accept-terms leaves a blacklisted customer blacklisted.
C29_OnlyStaffLiftsBlacklist ==
    [][\A id \in CustomerIds :
          (/\ IsBlacklisted(id)
           /\ customers'[id] # NoRow
           /\ customers'[id].status = "active")
            => resp'.op = "customerStatus"]_vars

\* C30: each accepted review raises the customer's totalPoints by exactly
\* 25: when no review call is in flight, totalPoints is 25 times the number
\* of the customer's reviews, in any interleaving of concurrent submissions.
C30_PointsPerReview ==
    (\A s \in Sessions : rev[s].pc = "idle") =>
        \A c \in CustomerIds :
            customers[c].totalPoints =
                ReviewPoints * Cardinality({r \in reviews : r.customerId = c})

\* C26: whenever compressImageDetailed resolves, the size of the file it
\* returns is at most maxSizeInMB * 1024 * 1024 bytes.
C26_CompressedWithinLimit ==
    img.pc = "resolved" => img.finalSize <= img.targetBytes

====
